---- MODULE Spec2Model ----
(***************************************************************************)
(* A model of the crime CSV service (src/main.py): the lazily built,      *)
(* memoized record store (_df, schema), the column-role inference, the    *)
(* date normalisation, and the list / stats / geojson / heatmap / columns *)
(* handlers that read the store.                                          *)
(*                                                                         *)
(* Data conventions.                                                       *)
(*  - A CSV file is [present, columns, rows]; a row maps each column name *)
(*    to a cell.  A cell is [k, n, s, fmts, fb, bulk, t]: k is its kind   *)
(*    ("null" an empty cell, "num" a number n, "str" the text s, "date" a *)
(*    text s that some date parser may read as the instant t).            *)
(*    For a date cell, fmts is the set of the nine strptime formats of    *)
(*    _maybe_parse_date that accept the text, fb tells whether            *)
(*    pd.to_datetime accepts the text on its own, and bulk whether the    *)
(*    column-wide pd.to_datetime(..., errors="coerce") reads this row     *)
(*    (it may fail to, e.g. "03/02/2021" in a column whose inferred        *)
(*    format is %Y-%m-%d, or an out-of-range year).                       *)
(*  - Instants are integers yyyymmdd; coordinates are integers.           *)
(*  - An optional value (NaN / NaT / None in a column) is [na, v].        *)
(***************************************************************************)
EXTENDS Integers, Sequences, FiniteSets, TLC

VARIABLES
  csv,      \* the file at CSV_PATH (environment)
  _df,      \* the module global _df: NoneDf or the built store
  schema,   \* the module global schema: role -> column name or None
  pc,       \* per request thread: its position in the handler
  op,       \* per request thread: the endpoint being served
  ldf,      \* per request thread: _load_df's local df (and its mapping)
  resp,     \* per request thread: the last response produced
  builds    \* history: how many times _load_df ran to its last line

vars == <<csv, _df, schema, pc, op, ldf, resp, builds>>

-----------------------------------------------------------------------------
(* Bounds of the model *)

\* Worker threads serving requests at once.
NThreads == 2
\* Longest file (rows) in the enumerated inputs.
MaxRows == 2
\* Longest file (rows) in the geo inputs.
MaxGeoRows == 3
\* Most columns of a header in the role-inference inputs.
MaxCols == 3
\* The build counter stops counting here.
MaxBuilds == 3

Threads == 1 .. NThreads

-----------------------------------------------------------------------------
(* Values *)

None == "None"

NA == [na |-> TRUE, v |-> 0]
Some(x) == [na |-> FALSE, v |-> x]

NullCell == [k |-> "null", n |-> 0, s |-> "", fmts |-> {}, fb |-> FALSE, bulk |-> FALSE, t |-> 0]
Num(x) == [k |-> "num", n |-> x, s |-> "", fmts |-> {}, fb |-> FALSE, bulk |-> FALSE, t |-> 0]
Str(x) == [k |-> "str", n |-> 0, s |-> x, fmts |-> {}, fb |-> FALSE, bulk |-> FALSE, t |-> 0]
DateCell(x, f, b, u, i) == [k |-> "date", n |-> 0, s |-> x, fmts |-> f, fb |-> b, bulk |-> u, t |-> i]

\* str.lower() on the strings the model uses that are not already lower case.
LowerTable ==
  [x \in {"Latitude", "Lat", "LAT", "Longitude", "Date", "Offense", "Y",
          "THEFT", "ASSAULT", "Theft"} |->
     CASE x = "Latitude" -> "latitude"
       [] x = "Lat" -> "lat"
       [] x = "LAT" -> "lat"
       [] x = "Longitude" -> "longitude"
       [] x = "Date" -> "date"
       [] x = "Offense" -> "offense"
       [] x = "Y" -> "y"
       [] x = "THEFT" -> "theft"
       [] x = "ASSAULT" -> "assault"
       [] x = "Theft" -> "theft"]

Lower(x) == IF x \in DOMAIN LowerTable THEN LowerTable[x] ELSE x

\* str.contains: the substring relation on the (lower-cased) strings used.
SubstringPairs ==
  {<<"the", "theft">>, <<"au", "assault">>, <<"an", "nan">>}

Contains(x, q) == x = q \/ <<q, x>> \in SubstringPairs

Roles == {"lat", "lng", "date", "category", "description", "id", "city", "state"}

Candidates ==
  [r \in Roles |->
     CASE r = "lat" -> <<"latitude", "lat", "y">>
       [] r = "lng" -> <<"longitude", "lon", "lng", "x">>
       [] r = "date" -> <<"date", "datetime", "occurred_on", "timestamp",
                          "reported_date", "reported_at">>
       [] r = "category" -> <<"category", "offense", "crime_type", "offense_type",
                              "type", "ucr", "incident_type">>
       [] r = "description" -> <<"description", "details", "summary", "narrative",
                                 "offense_description", "incident_description">>
       [] r = "id" -> <<"id", "incident_id", "case_number", "case_id", "event_number">>
       [] r = "city" -> <<"city", "municipality", "jurisdiction">>
       [] r = "state" -> <<"state", "province", "region">>]

NoSchema == [r \in Roles |-> None]

NoneDf == [isNone |-> TRUE]

DerivedColumns == <<"_dt", "_cat", "_desc", "_lat", "_lng", "_id", "_city", "_state">>

-----------------------------------------------------------------------------
(* _auto_map_columns *)

\* The dict {c.lower(): c for c in df.columns}: a later column replaces an
\* earlier one with the same lower-cased name.
ColumnsLower(columns) ==
  [key \in {Lower(columns[i]) : i \in DOMAIN columns} |->
     LET last == CHOOSE i \in DOMAIN columns :
                   /\ Lower(columns[i]) = key
                   /\ \A j \in DOMAIN columns : Lower(columns[j]) = key => j <= i
     IN  columns[last]]

RECURSIVE PickFrom(_, _, _)
PickFrom(columns_lower, candidates, i) ==
  IF i > Len(candidates) THEN None
  ELSE IF candidates[i] \in DOMAIN columns_lower THEN columns_lower[candidates[i]]
  ELSE PickFrom(columns_lower, candidates, i + 1)

Pick(columns_lower, candidates) == PickFrom(columns_lower, candidates, 1)

AutoMapColumns(columns) ==
  LET columns_lower == ColumnsLower(columns)
  IN  [r \in Roles |-> Pick(columns_lower, Candidates[r])]

-----------------------------------------------------------------------------
(* _maybe_parse_date and the coercions of _load_df *)

NumFormats == 9

RECURSIVE TryFormats(_, _)
TryFormats(cell, f) ==
  IF f > NumFormats
    THEN IF cell.fb THEN Some(cell.t) ELSE NA
    ELSE IF f \in cell.fmts THEN Some(cell.t) ELSE TryFormats(cell, f + 1)

MaybeParseDate(cell) == TryFormats(cell, 1)

\* One row of pd.to_datetime(column, errors="coerce").
BulkParse(cell) == IF cell.bulk THEN Some(cell.t) ELSE NA

\* Series.astype(str): an empty cell becomes the text "nan".
AsStr(cell) ==
  CASE cell.k = "null" -> "nan"
    [] cell.k = "num" -> ToString(cell.n)
    [] OTHER -> cell.s

\* pd.to_numeric(errors="coerce")
ToNumeric(cell) == IF cell.k = "num" THEN Some(cell.n) ELSE NA

Mapped(sch, r, columns) ==
  sch[r] # None /\ \E i \in DOMAIN columns : columns[i] = sch[r]

DtColumn(file, sch, raises) ==
  IF sch["date"] # None /\ \E i \in DOMAIN file.rows : file.rows[i][sch["date"]].k # "null"
    THEN IF raises
           THEN [i \in DOMAIN file.rows |-> MaybeParseDate(file.rows[i][sch["date"]])]
           ELSE [i \in DOMAIN file.rows |-> BulkParse(file.rows[i][sch["date"]])]
    ELSE [i \in DOMAIN file.rows |-> NA]

StrColumn(file, sch, r) ==
  IF Mapped(sch, r, file.columns)
    THEN [i \in DOMAIN file.rows |-> AsStr(file.rows[i][sch[r]])]
    ELSE [i \in DOMAIN file.rows |-> ""]

NumColumn(file, sch, r) ==
  IF Mapped(sch, r, file.columns)
    THEN [i \in DOMAIN file.rows |-> ToNumeric(file.rows[i][sch[r]])]
    ELSE [i \in DOMAIN file.rows |-> NA]

IdColumn(file, sch) ==
  IF Mapped(sch, "id", file.columns)
    THEN [i \in DOMAIN file.rows |-> AsStr(file.rows[i][sch["id"]])]
    ELSE [i \in DOMAIN file.rows |-> ToString(i - 1)]

\* Lines 102-141: the derived columns of the frame read from `file`, under
\* the mapping `sch`; `raises` tells whether the column-wide date parse raised.
Normalize(file, sch, raises) ==
  LET dt == DtColumn(file, sch, raises)
      cat == StrColumn(file, sch, "category")
      desc == StrColumn(file, sch, "description")
      lat == NumColumn(file, sch, "lat")
      lng == NumColumn(file, sch, "lng")
      id == IdColumn(file, sch)
      city == StrColumn(file, sch, "city")
      state == StrColumn(file, sch, "state")
  IN  [isNone |-> FALSE,
       columns |-> file.columns \o DerivedColumns,
       rows |-> [i \in DOMAIN file.rows |->
                   [_id |-> id[i], _dt |-> dt[i], _cat |-> cat[i], _desc |-> desc[i],
                    _lat |-> lat[i], _lng |-> lng[i], _city |-> city[i],
                    _state |-> state[i]]]]

-----------------------------------------------------------------------------
(* Helpers on index sets and sequences *)

Min2(a, b) == IF a <= b THEN a ELSE b

SetMin(S) == CHOOSE x \in S : \A y \in S : x <= y
SetMax(S) == CHOOSE x \in S : \A y \in S : y <= x

\* The elements of a finite set of integers, ascending.
RECURSIVE Ascending(_)
Ascending(S) == IF S = {} THEN <<>> ELSE <<SetMin(S)>> \o Ascending(S \ {SetMin(S)})

Range(f) == {f[i] : i \in DOMAIN f}

\* All arrangements of the finite set S as a sequence without repetition.
Arrangements(S) ==
  {f \in [1 .. Cardinality(S) -> S] : \A i, j \in 1 .. Cardinality(S) : f[i] = f[j] => i = j}

RECURSIVE SumSeq(_)
SumSeq(f) == IF Len(f) = 0 THEN 0 ELSE f[1] + SumSeq(Tail(f))

-----------------------------------------------------------------------------
(* incidents: filter, sort, paginate, project *)

NoDate == [k |-> "none", t |-> 0]
OkDate(x) == [k |-> "ok", t |-> x]
BadDate == [k |-> "bad", t |-> 0]

\* Series >= scalar and Series <= scalar: a missing value compares False.
GeOpt(x, bound) == ~x.na /\ x.v >= bound
LeOpt(x, bound) == ~x.na /\ x.v <= bound

\* Lines 184-217: the boolean mask, one conjunct per active filter.
Filt(df, p) ==
  [i \in DOMAIN df.rows |->
     LET r == df.rows[i]
     IN  /\ p.q # None =>
              \/ Contains(Lower(r._desc), Lower(p.q))
              \/ Contains(Lower(r._cat), Lower(p.q))
         /\ p.category # None => Lower(r._cat) = Lower(p.category)
         /\ p.city # None => Lower(r._city) = Lower(p.city)
         /\ p.state # None => Lower(r._state) = Lower(p.state)
         /\ p.start_date.k = "ok" => GeOpt(r._dt, p.start_date.t)
         /\ p.end_date.k = "ok" => LeOpt(r._dt, p.end_date.t)
         /\ ~p.min_lat.na => GeOpt(r._lat, p.min_lat.v)
         /\ ~p.max_lat.na => LeOpt(r._lat, p.max_lat.v)
         /\ ~p.min_lng.na => GeOpt(r._lng, p.min_lng.v)
         /\ ~p.max_lng.na => LeOpt(r._lng, p.max_lng.v)]

\* A selection that forgets rows whose mask entry is True but whose timestamp
\* is missing.
SelectedDropsNaT(df, filt) ==
  Ascending({i \in DOMAIN df.rows : filt[i] /\ ~df.rows[i]._dt.na})

\* df[filt]: the positions of the kept rows, in store order.
Selected(df, filt) == Ascending({i \in DOMAIN df.rows : filt[i]})

\* The date-range mask of stats (lines 257-270).
DateFilt(df, sd, ed) ==
  [i \in DOMAIN df.rows |->
     /\ sd.k = "ok" => GeOpt(df.rows[i]._dt, sd.t)
     /\ ed.k = "ok" => LeOpt(df.rows[i]._dt, ed.t)]

\* A descending sort taken as the ascending one read backwards: the rows
\* without a timestamp come first.
SortValuesReversedWhole(df, res, ascending) ==
  LET present == {res[n] : n \in {m \in DOMAIN res : ~df.rows[res[m]]._dt.na}}
      absent == {res[n] : n \in {m \in DOMAIN res : df.rows[res[m]]._dt.na}}
      key(i) == df.rows[i]._dt.v
      up == {g \in Arrangements(present) :
               \A a, b \in DOMAIN g : a < b => key(g[a]) <= key(g[b])}
  IN  IF ascending
        THEN {f \o Ascending(absent) : f \in up}
        ELSE {[n \in 1 .. Len(f \o Ascending(absent)) |->
                 (f \o Ascending(absent))[Len(f \o Ascending(absent)) + 1 - n]] : f \in up}

\* sort_values(by="_dt", ascending=..., na_position="last") with the default
\* (unstable) quicksort: the rows with a timestamp ordered by it, rows with equal
\* timestamps in an order the sort does not fix, then the rows without a
\* timestamp in their previous order.  The set of orders the call may produce.
SortValues(df, res, ascending) ==
  LET present == {res[n] : n \in {m \in DOMAIN res : ~df.rows[res[m]]._dt.na}}
      absent == {res[n] : n \in {m \in DOMAIN res : df.rows[res[m]]._dt.na}}
      key(i) == df.rows[i]._dt.v
  IN  {f \o Ascending(absent) : f \in
         {g \in Arrangements(present) :
            \A a, b \in DOMAIN g :
               a < b => IF ascending THEN key(g[a]) <= key(g[b])
                                     ELSE key(g[a]) >= key(g[b])}}

\* Lines 221-225: the orders the requested sort may leave the rows in.
Sorted(df, res, sort) ==
  IF sort = "date" THEN SortValues(df, res, TRUE)
  ELSE IF sort = "-date" THEN SortValues(df, res, FALSE)
  ELSE {res}

\* res.iloc[offset : offset + limit]
Page(res, offset, limit) ==
  SubSeq(res, offset + 1, Min2(offset + limit, Len(res)))

\* Lines 232-242: one item of the payload.
Item(r) ==
  [id |-> r._id, date |-> r._dt, category |-> r._cat, description |-> r._desc,
   lat |-> r._lat, lng |-> r._lng, city |-> r._city, state |-> r._state]

\* The responses incidents may give on the store df for the parameters p.
Incidents(df, p) ==
  IF p.start_date.k = "bad"
    THEN {[status |-> 400, op |-> "incidents", detail |-> "Invalid start_date", params |-> p]}
  ELSE IF p.end_date.k = "bad"
    THEN {[status |-> 400, op |-> "incidents", detail |-> "Invalid end_date", params |-> p]}
  ELSE
    LET res == Selected(df, Filt(df, p))
    IN  {[status |-> 200, op |-> "incidents", params |-> p,
          total |-> Len(sorted), limit |-> p.limit, offset |-> p.offset,
          items |-> [n \in DOMAIN Page(sorted, p.offset, p.limit) |->
                       Item(df.rows[Page(sorted, p.offset, p.limit)[n]])]]
           : sorted \in Sorted(df, res, p.sort)}

-----------------------------------------------------------------------------
(* stats *)

GroupBys == {"category", "day", "month", "year", "city", "state"}

\* The grouping key of a row for a text grouping.
TextKey(r, by) ==
  CASE by = "category" -> r._cat
    [] by = "city" -> r._city
    [] by = "state" -> r._state

\* dt.dt.date / dt.dt.to_period("M") / dt.dt.year of an instant yyyymmdd.
TimeKey(t, by) ==
  CASE by = "day" -> t
    [] by = "month" -> t \div 100
    [] by = "year" -> t \div 10000

\* groupby(...).size().sort_values("count", ascending=False): one entry per key,
\* by count descending, equal counts in an order the sort does not fix.
TextGroups(df, res, by) ==
  LET keys == {TextKey(df.rows[res[n]], by) : n \in DOMAIN res}
      count(k) == Cardinality({n \in DOMAIN res : TextKey(df.rows[res[n]], by) = k})
  IN  {[n \in DOMAIN g |-> [key |-> g[n], count |-> count(g[n])]] : g \in
         {h \in Arrangements(keys) :
            \A a, b \in DOMAIN h : a < b => count(h[a]) >= count(h[b])}}

\* dropna() then value_counts().sort_index(): one entry per bucket, ascending.
TimeGroups(df, res, by) ==
  LET dt == {n \in DOMAIN res : ~df.rows[res[n]]._dt.na}
      keys == {TimeKey(df.rows[res[n]]._dt.v, by) : n \in dt}
      count(k) == Cardinality({n \in dt : TimeKey(df.rows[res[n]]._dt.v, by) = k})
      order == Ascending(keys)
  IN  [n \in DOMAIN order |-> [key |-> order[n], count |-> count(order[n])]]

\* The responses stats may give on the store df.
Stats(df, by, sd, ed) ==
  IF sd.k = "bad"
    THEN {[status |-> 400, op |-> "stats", detail |-> "Invalid start_date"]}
  ELSE IF ed.k = "bad"
    THEN {[status |-> 400, op |-> "stats", detail |-> "Invalid end_date"]}
  ELSE
    LET res == Selected(df, DateFilt(df, sd, ed))
    IN  IF by \in {"category", "city", "state"}
          THEN {[status |-> 200, op |-> "stats", by |-> by, sd |-> sd, ed |-> ed,
                 data |-> d] : d \in TextGroups(df, res, by)}
        ELSE IF by \in {"day", "month", "year"}
          THEN IF \A n \in DOMAIN res : df.rows[res[n]]._dt.na
                 THEN {[status |-> 200, op |-> "stats", by |-> by, sd |-> sd, ed |-> ed,
                        data |-> <<>>]}
                 ELSE {[status |-> 200, op |-> "stats", by |-> by, sd |-> sd, ed |-> ed,
                        data |-> TimeGroups(df, res, by)]}
        ELSE {[status |-> 400, op |-> "stats", detail |-> "Invalid 'by' parameter"]}

-----------------------------------------------------------------------------
(* geojson and heatmap *)

\* The guard of lines 308 and 336: df["_lat"].isna().all() or df["_lng"].isna().all()
NoGeoColumns(df) ==
  \/ \A i \in DOMAIN df.rows : df.rows[i]._lat.na
  \/ \A i \in DOMAIN df.rows : df.rows[i]._lng.na

GeoDetail == "CSV has no latitude/longitude columns"

Geojson(df) ==
  IF NoGeoColumns(df)
    THEN [status |-> 400, op |-> "geojson", detail |-> GeoDetail]
    ELSE
      LET kept == Ascending({i \in DOMAIN df.rows :
                               ~df.rows[i]._lat.na /\ ~df.rows[i]._lng.na})
      IN  [status |-> 200, op |-> "geojson",
           features |-> [n \in DOMAIN kept |->
              LET r == df.rows[kept[n]]
              IN  [coordinates |-> <<r._lng.v, r._lat.v>>,
                   id |-> r._id, date |-> r._dt, category |-> r._cat,
                   description |-> r._desc, city |-> r._city, state |-> r._state]]]

BinsMin == 5
BinsMax == 400

\* Series.dropna(): the values present in a column, in store order.
DropNa(df, col) ==
  LET kept == Ascending({i \in DOMAIN df.rows : ~df.rows[i][col].na})
  IN  [n \in DOMAIN kept |-> df.rows[kept[n]][col].v]

\* min(int((value - lo) / step), bins - 1) with step = (hi - lo) / bins, in exact
\* arithmetic (value >= lo, hi > lo).
CellIndex(value, lo, hi, bins) ==
  Min2(((value - lo) * bins) \div (hi - lo), bins - 1)

\* lo + (i + 0.5) * step, as the fraction num / den.
CellCenter(i, lo, hi, bins) ==
  [num |-> 2 * bins * lo + (2 * i + 1) * (hi - lo), den |-> 2 * bins]

\* zip(lat, lng): the two value lists paired by position, to the shorter one.
Zip(lat, lng) ==
  [n \in 1 .. Min2(Len(lat), Len(lng)) |-> <<lat[n], lng[n]>>]

\* Lines 355-366: the dict of cell counts, listed in insertion order.
Grid(pairs, lat_min, lat_max, lng_min, lng_max, bins) ==
  LET key(n) == <<CellIndex(pairs[n][1], lat_min, lat_max, bins),
                  CellIndex(pairs[n][2], lng_min, lng_max, bins)>>
      first == Ascending({n \in DOMAIN pairs : \A m \in DOMAIN pairs : m < n => key(m) # key(n)})
  IN  [c \in DOMAIN first |->
         [i |-> key(first[c])[1], j |-> key(first[c])[2],
          lat |-> CellCenter(key(first[c])[1], lat_min, lat_max, bins),
          lng |-> CellCenter(key(first[c])[2], lng_min, lng_max, bins),
          count |-> Cardinality({n \in DOMAIN pairs : key(n) = key(first[c])})]]

Heatmap(df, bins) ==
  IF NoGeoColumns(df)
    THEN [status |-> 400, op |-> "heatmap", detail |-> GeoDetail]
    ELSE
      LET lat == DropNa(df, "_lat")
          lng == DropNa(df, "_lng")
      IN  IF Len(lat) = 0 \/ Len(lng) = 0
            THEN [status |-> 200, op |-> "heatmap", bins |-> bins, grid |-> <<>>]
            ELSE
              LET lat_min == SetMin(Range(lat))
                  lat_max == SetMax(Range(lat))
                  lng_min == SetMin(Range(lng))
                  lng_max == SetMax(Range(lng))
              IN  IF lat_min = lat_max \/ lng_min = lng_max
                    THEN [status |-> 200, op |-> "heatmap", bins |-> bins,
                          grid |-> <<[lat |-> lat_min, lng |-> lng_min,
                                      count |-> Len(lat)]>>]
                    ELSE [status |-> 200, op |-> "heatmap", bins |-> bins,
                          bounds |-> [lat_min |-> lat_min, lat_max |-> lat_max,
                                      lng_min |-> lng_min, lng_max |-> lng_max],
                          grid |-> Grid(Zip(lat, lng), lat_min, lat_max,
                                        lng_min, lng_max, bins)]

-----------------------------------------------------------------------------
(* columns *)

Columns(df, sch) ==
  [status |-> 200, op |-> "columns", columns |-> df.columns, mapped |-> sch,
   row_count |-> Len(df.rows)]

-----------------------------------------------------------------------------
(* Requests.  A request thread runs its handler from the call of get_df to  *)
(* the response; the steps are the reads and writes of the shared globals.  *)

Absent == [present |-> FALSE]
MkFile(columns, rows) == [present |-> TRUE, columns |-> columns, rows |-> rows]

NoLocal == [set |-> FALSE]
NoResp == [status |-> 0, op |-> "none"]

Endpoints == {"columns", "incidents", "stats", "geojson", "heatmap"}

\* except FileNotFoundError: raise HTTPException(status_code=404, ...)
NotFound(o) == [status |-> 404, op |-> o, detail |-> "CSV not found"]

\* An exception no handler catches: the server answers 500.
ServerError(o) == [status |-> 500, op |-> o, detail |-> "Internal Server Error"]

LimitDefault == 100
BinsDefault == 50

DefaultParams ==
  [q |-> None, category |-> None, city |-> None, state |-> None,
   start_date |-> NoDate, end_date |-> NoDate,
   min_lat |-> NA, max_lat |-> NA, min_lng |-> NA, max_lng |-> NA,
   limit |-> LimitDefault, offset |-> 0, sort |-> "-date"]

TypeOK ==
  /\ pc \in [Threads -> {"idle", "get_df", "exists", "read", "map", "normalize",
                         "assign", "query"}]
  /\ op \in [Threads -> Endpoints \cup {"none"}]
  /\ builds \in 0 .. MaxBuilds
  /\ \A r \in Roles : schema[r] \in STRING

InitOn(files) ==
  /\ csv \in files
  /\ _df = NoneDf
  /\ schema = NoSchema
  /\ pc = [t \in Threads |-> "idle"]
  /\ op = [t \in Threads |-> "none"]
  /\ ldf = [t \in Threads |-> NoLocal]
  /\ resp = [t \in Threads |-> NoResp]
  /\ builds = 0

\* A request for endpoint o arrives; the handler calls get_df.
Call(t, o) ==
  /\ pc[t] = "idle"
  /\ pc' = [pc EXCEPT ![t] = "get_df"]
  /\ op' = [op EXCEPT ![t] = o]
  /\ UNCHANGED <<csv, _df, schema, ldf, resp, builds>>

\* get_df, line 147: if _df is None: _load_df()
GetDf(t) ==
  /\ pc[t] = "get_df"
  /\ pc' = [pc EXCEPT ![t] = IF _df.isNone THEN "exists" ELSE "query"]
  /\ UNCHANGED <<csv, _df, schema, op, ldf, resp, builds>>

\* A build that leaves an empty store behind when the file is missing.
LoadMissingPartial(t) ==
  /\ pc[t] = "exists"
  /\ ~csv.present
  /\ resp' = [resp EXCEPT ![t] = NotFound(op[t])]
  /\ pc' = [pc EXCEPT ![t] = "idle"]
  /\ _df' = [isNone |-> FALSE, columns |-> DerivedColumns, rows |-> <<>>]
  /\ UNCHANGED <<csv, schema, op, ldf, builds>>

\* _load_df, lines 92-93: the file is missing; FileNotFoundError reaches the
\* handler, which answers 404.
LoadMissing(t) ==
  /\ pc[t] = "exists"
  /\ ~csv.present
  /\ resp' = [resp EXCEPT ![t] = NotFound(op[t])]
  /\ pc' = [pc EXCEPT ![t] = "idle"]
  /\ UNCHANGED <<csv, _df, schema, op, ldf, builds>>

\* _load_df, line 92: the file exists.
LoadExists(t) ==
  /\ pc[t] = "exists"
  /\ csv.present
  /\ pc' = [pc EXCEPT ![t] = "read"]
  /\ UNCHANGED <<csv, _df, schema, op, ldf, resp, builds>>

\* _load_df, line 94: df = pd.read_csv(CSV_PATH); a file removed since line 92
\* makes read_csv raise FileNotFoundError.
LoadRead(t) ==
  /\ pc[t] = "read"
  /\ IF csv.present
       THEN /\ ldf' = [ldf EXCEPT ![t] = [set |-> TRUE, file |-> csv]]
            /\ pc' = [pc EXCEPT ![t] = "map"]
            /\ UNCHANGED resp
       ELSE /\ resp' = [resp EXCEPT ![t] = NotFound(op[t])]
            /\ pc' = [pc EXCEPT ![t] = "idle"]
            /\ UNCHANGED ldf
  /\ UNCHANGED <<csv, _df, schema, op, builds>>

\* _load_df, line 95: schema = _auto_map_columns(df)
LoadMap(t) ==
  /\ pc[t] = "map"
  /\ schema' = AutoMapColumns(ldf[t].file.columns)
  /\ pc' = [pc EXCEPT ![t] = "normalize"]
  /\ UNCHANGED <<csv, _df, op, ldf, resp, builds>>

\* _load_df, lines 102-141: the derived columns, computed from the global
\* schema as it is now.  df[schema["date"]] raises KeyError when the mapping
\* names a column this frame lacks (another thread's build replaced schema).
LoadNormalize(t) ==
  /\ pc[t] = "normalize"
  /\ IF schema["date"] # None /\ ~Mapped(schema, "date", ldf[t].file.columns)
       THEN /\ resp' = [resp EXCEPT ![t] = ServerError(op[t])]
            /\ pc' = [pc EXCEPT ![t] = "idle"]
            /\ ldf' = [ldf EXCEPT ![t] = NoLocal]
       ELSE /\ \E raises \in BOOLEAN :
                 ldf' = [ldf EXCEPT ![t] =
                           [set |-> TRUE, file |-> ldf[t].file,
                            df |-> Normalize(ldf[t].file, schema, raises)]]
            /\ pc' = [pc EXCEPT ![t] = "assign"]
            /\ UNCHANGED resp
  /\ UNCHANGED <<csv, _df, schema, op, builds>>

\* _load_df, line 143: _df = df
LoadAssign(t) ==
  /\ pc[t] = "assign"
  /\ _df' = ldf[t].df
  /\ builds' = Min2(builds + 1, MaxBuilds)
  /\ ldf' = [ldf EXCEPT ![t] = NoLocal]
  /\ pc' = [pc EXCEPT ![t] = "query"]
  /\ UNCHANGED <<csv, schema, op, resp>>

\* The rest of a handler: get_df returns _df (line 149) and the handler
\* computes its response from it.
Respond(t, r) ==
  /\ resp' = [resp EXCEPT ![t] = r]
  /\ pc' = [pc EXCEPT ![t] = "idle"]
  /\ UNCHANGED <<csv, _df, schema, op, ldf, builds>>

QColumns(t) ==
  /\ pc[t] = "query" /\ op[t] = "columns"
  /\ Respond(t, Columns(_df, schema))

QIncidents(t, params) ==
  /\ pc[t] = "query" /\ op[t] = "incidents"
  /\ \E p \in params : \E r \in Incidents(_df, p) : Respond(t, r)

QStats(t, bys, dates) ==
  /\ pc[t] = "query" /\ op[t] = "stats"
  /\ \E by \in bys, sd \in dates, ed \in dates :
       \E r \in Stats(_df, by, sd, ed) : Respond(t, r)

QGeojson(t) ==
  /\ pc[t] = "query" /\ op[t] = "geojson"
  /\ Respond(t, Geojson(_df))

QHeatmap(t, binss) ==
  /\ pc[t] = "query" /\ op[t] = "heatmap"
  /\ \E bins \in binss : Respond(t, Heatmap(_df, bins))

\* The environment replaces, removes or restores the file at CSV_PATH.
SetCsv(files) ==
  /\ \E f \in files \cup {Absent} : f # csv /\ csv' = f
  /\ UNCHANGED <<_df, schema, pc, op, ldf, resp, builds>>

\* The steps of _load_df
Load(t) ==
  \/ LoadMissing(t)
  \/ LoadExists(t)
  \/ LoadRead(t)
  \/ LoadMap(t)
  \/ LoadNormalize(t)
  \/ LoadAssign(t)

-----------------------------------------------------------------------------
(* The service under concurrent requests, with a file that may change *)

IsoCell(x, i) == DateCell(x, {1}, TRUE, TRUE, i)

RowOf(lat, lng, date, offense) ==
  [c \in {"Latitude", "Longitude", "Date", "Offense"} |->
     CASE c = "Latitude" -> lat
       [] c = "Longitude" -> lng
       [] c = "Date" -> date
       [] c = "Offense" -> offense]

StdColumns == <<"Latitude", "Longitude", "Date", "Offense">>

FileA ==
  MkFile(StdColumns, <<RowOf(Num(1), Num(2), IsoCell("2021-03-01", 20210301), Str("THEFT"))>>)

FileB ==
  MkFile(<<"Latitude", "Longitude", "reported_at", "Offense">>,
         <<[c \in {"Latitude", "Longitude", "reported_at", "Offense"} |->
              CASE c = "Latitude" -> Num(3)
                [] c = "Longitude" -> Num(4)
                [] c = "reported_at" -> IsoCell("2021-03-02", 20210302)
                [] c = "Offense" -> Str("ASSAULT")]>>)

ConcFiles == {FileA, FileB}

Init == InitOn(ConcFiles \cup {Absent})

Next ==
  \/ \E t \in Threads, o \in Endpoints : Call(t, o)
  \/ \E t \in Threads : GetDf(t)
  \/ \E t \in Threads : Load(t)
  \/ \E t \in Threads : QColumns(t)
  \/ \E t \in Threads : QIncidents(t, {DefaultParams})
  \/ \E t \in Threads : QStats(t, {"category"}, {NoDate})
  \/ \E t \in Threads : QGeojson(t)
  \/ \E t \in Threads : QHeatmap(t, {BinsDefault})
  \/ SetCsv(ConcFiles)

Spec == Init /\ [][Next]_vars

-----------------------------------------------------------------------------
(* C1, C3: the lazy build under concurrent first requests *)

\* C1: under concurrent first requests the build step runs at most once: the
\* store global _df is assigned at most once in any run.
C1_BuildAtMostOnce == builds <= 1

\* C3: once the store is built, no step of any list, stats, geojson, heatmap or
\* columns request changes the store or the role mapping.
C3_StoreNeverChangesOnceBuilt ==
  [][~_df.isNone => (_df' = _df /\ schema' = schema)]_vars

\* The part of C3 that the code keeps: a request that finds the store built
\* (or has it in hand) only reads it.
ReadersLeaveStoreAlone ==
  [][\A t \in Threads :
       (~_df.isNone /\ pc[t] \in {"idle", "get_df", "query"} /\ pc'[t] # pc[t])
          => (_df' = _df /\ schema' = schema)]_vars

-----------------------------------------------------------------------------
(* C2: a missing source, with requests that retry *)

NextRetry ==
  \/ \E t \in Threads : Call(t, "columns")
  \/ \E t \in Threads : GetDf(t)
  \/ \E t \in Threads : Load(t)
  \/ \E t \in Threads : QColumns(t)
  \/ SetCsv(ConcFiles)

SpecRetry == Init /\ [][NextRetry]_vars

\* C2: a build attempted while the source is absent answers SourceNotFound
\* (404) and changes neither the store nor the role mapping; nothing remembers
\* the failure, so every request that finds the store unbuilt attempts the
\* build again, a build attempted while the source is present is not refused,
\* and the build's last step leaves the store built.
C2_MissingSourceLeavesStoreUnbuilt ==
  [][\A t \in Threads :
       /\ (pc[t] \in {"exists", "read"} /\ ~csv.present /\ pc'[t] # pc[t])
            => /\ resp'[t] = NotFound(op[t])
               /\ pc'[t] = "idle"
               /\ _df' = _df
               /\ schema' = schema
       /\ (pc[t] = "get_df" /\ _df.isNone /\ pc'[t] # pc[t]) => pc'[t] = "exists"
       /\ (pc[t] = "exists" /\ csv.present /\ pc'[t] # pc[t])
            => (pc'[t] = "read" /\ resp'[t] = resp[t])
       /\ (pc[t] = "read" /\ csv.present /\ pc'[t] # pc[t])
            => (pc'[t] = "map" /\ resp'[t] = resp[t])
       /\ (pc[t] = "assign" /\ pc'[t] # pc[t]) => ~_df'.isNone
       /\ (resp'[t] # resp[t] /\ resp'[t].status = 404) => ~csv.present]_vars

\* A request that was answered SourceNotFound left the store unbuilt, and the
\* same client's next request is now completing a build.
C2_Witness ==
  \E t \in Threads :
    /\ resp[t].status = 404
    /\ pc[t] = "assign"
    /\ _df.isNone
    /\ builds = 0

-----------------------------------------------------------------------------
(* Requests served one at a time on a file that is present and stays as it is *)

\* A request arrives while no other is being served; the client's previous
\* response is dropped.
SeqCall(t, o) ==
  /\ \A u \in Threads : pc[u] = "idle"
  /\ pc' = [pc EXCEPT ![t] = "get_df"]
  /\ op' = [op EXCEPT ![t] = o]
  /\ resp' = [resp EXCEPT ![t] = NoResp]
  /\ UNCHANGED <<csv, _df, schema, ldf, builds>>

\* The steps of _load_df when the file is there.
Build(t) ==
  \/ LoadExists(t)
  \/ LoadRead(t)
  \/ LoadMap(t)
  \/ LoadNormalize(t)
  \/ LoadAssign(t)

\* All files with the given header whose rows are drawn from `rows`.
FilesOf(columns, rows, maxlen) ==
  {MkFile(columns, r) : r \in UNION {[1 .. n -> rows] : n \in 1 .. maxlen}}

-----------------------------------------------------------------------------
(* C4: list *)

ListRows ==
  {RowOf(lat, Num(2), date, offense) :
     lat \in {NullCell, Num(1)},
     date \in {NullCell, IsoCell("2021-03-01", 20210301), IsoCell("2021-03-02", 20210302)},
     offense \in {Str("THEFT"), Str("ASSAULT")}}

ListFiles == FilesOf(StdColumns, ListRows, MaxRows)

StrFilters == {"q", "category", "city", "state"}
DateFilters == {"start_date", "end_date"}
NumFilters == {"min_lat", "max_lat", "min_lng", "max_lng"}
FilterNames == StrFilters \cup DateFilters \cup NumFilters

FilterChoices ==
  [q : {None, "the"}, category : {None, "Theft"}, city : {None, "la"}, state : {None, "ca"},
   start_date : {NoDate, OkDate(20210302), BadDate},
   end_date : {NoDate, OkDate(20210301), BadDate},
   min_lat : {NA, Some(1)}, max_lat : {NA, Some(0)},
   min_lng : {NA, Some(3)}, max_lng : {NA, Some(2)}]

Inactive(f, n) ==
  IF n \in StrFilters THEN f[n] = None
  ELSE IF n \in DateFilters THEN f[n].k = "none"
  ELSE f[n].na

\* The filter combinations tried: any two filters (or fewer) active at once.
ListFilters ==
  {f \in FilterChoices :
     \E a, b \in FilterNames : \A n \in FilterNames \ {a, b} : Inactive(f, n)}

WithPaging(f, limit, offset, sort) ==
  [q |-> f.q, category |-> f.category, city |-> f.city, state |-> f.state,
   start_date |-> f.start_date, end_date |-> f.end_date,
   min_lat |-> f.min_lat, max_lat |-> f.max_lat,
   min_lng |-> f.min_lng, max_lng |-> f.max_lng,
   limit |-> limit, offset |-> offset, sort |-> sort]

ListParams ==
  {WithPaging(f, limit, offset, sort) :
     f \in ListFilters, limit \in {1, LimitDefault}, offset \in {0, 1, MaxRows + 1},
     sort \in {"-date", "date"}}

InitList == InitOn(ListFiles)

NextList ==
  \/ SeqCall(1, "incidents")
  \/ GetDf(1)
  \/ Build(1)
  \/ QIncidents(1, ListParams)

SpecList == InitList /\ [][NextList]_vars

\* What it means for a record to satisfy the active filters of p (section 4.4
\* of the specification), stated on the record alone.
Satisfies(r, p) ==
  /\ p.q = None \/ Contains(Lower(r._desc), Lower(p.q)) \/ Contains(Lower(r._cat), Lower(p.q))
  /\ p.category = None \/ Lower(r._cat) = Lower(p.category)
  /\ p.city = None \/ Lower(r._city) = Lower(p.city)
  /\ p.state = None \/ Lower(r._state) = Lower(p.state)
  /\ p.start_date.k = "none" \/ (~r._dt.na /\ r._dt.v >= p.start_date.t)
  /\ p.end_date.k = "none" \/ (~r._dt.na /\ r._dt.v <= p.end_date.t)
  /\ p.min_lat.na \/ (~r._lat.na /\ r._lat.v >= p.min_lat.v)
  /\ p.max_lat.na \/ (~r._lat.na /\ r._lat.v <= p.max_lat.v)
  /\ p.min_lng.na \/ (~r._lng.na /\ r._lng.v >= p.min_lng.v)
  /\ p.max_lng.na \/ (~r._lng.na /\ r._lng.v <= p.max_lng.v)

Matching(df, p) == {i \in DOMAIN df.rows : Satisfies(df.rows[i], p)}

-----------------------------------------------------------------------------
(* C5: the two sort directions on the same filtered set *)

\* Longest file (rows) in the sort inputs.
MaxSortRows == 3

SortRows ==
  {RowOf(Num(1), Num(2), date, Str("THEFT")) :
     date \in {NullCell, IsoCell("2021-03-01", 20210301), IsoCell("2021-03-02", 20210302)}}

SortFiles == FilesOf(StdColumns, SortRows, MaxSortRows)

SortParams ==
  {WithPaging([DefaultParams EXCEPT !.end_date = ed], LimitDefault, 0, sort) :
     ed \in {NoDate, OkDate(20210302)}, sort \in {"-date", "date"}}

\* Two clients, one asking after the other.
SortClients == {1, 2}

InitSort == InitOn(SortFiles)

NextSort ==
  \/ \E t \in SortClients : SeqCall(t, "incidents")
  \/ \E t \in SortClients : GetDf(t)
  \/ \E t \in SortClients : Build(t)
  \/ \E t \in SortClients : QIncidents(t, SortParams)

SpecSort == InitSort /\ [][NextSort]_vars

Reverse(f) == [n \in DOMAIN f |-> f[Len(f) + 1 - n]]

HasDate(item) == ~item.date.na

PresentItems(r) == SelectSeq(r.items, HasDate)

DatesOf(items) == [n \in DOMAIN items |-> items[n].date.v]

\* Every record without a timestamp comes after every record with one.
AbsentLast(r) ==
  \A a, b \in DOMAIN r.items :
    (r.items[a].date.na /\ ~r.items[b].date.na) => b < a

\* Client 1 holds the full listing of a filtered set by -date and client 2 the
\* full listing of the same filtered set by date.
SamePairListed ==
  /\ resp[1].op = "incidents" /\ resp[1].status = 200
  /\ resp[2].op = "incidents" /\ resp[2].status = 200
  /\ resp[1].params.sort = "-date"
  /\ resp[2].params = [resp[1].params EXCEPT !.sort = "date"]
  /\ resp[1].params.offset = 0
  /\ resp[1].total <= resp[1].params.limit

\* C5 as stated: the two listings are exactly reversed among the records with a
\* timestamp, records with equal timestamps included, and the records without
\* one come last in both.
C5_ExactlyReversed ==
  SamePairListed =>
    /\ PresentItems(resp[1]) = Reverse(PresentItems(resp[2]))
    /\ AbsentLast(resp[1])
    /\ AbsentLast(resp[2])

\* C5 as the code has it: the two listings hold the same records, the
\* timestamps read in exactly reversed order (so any two records with different
\* timestamps swap places), and the records without a timestamp come last in
\* both; records with equal timestamps need not swap.
C5_ReversedUpToTies ==
  SamePairListed =>
    /\ Range(resp[1].items) = Range(resp[2].items)
    /\ Len(resp[1].items) = Len(resp[2].items)
    /\ DatesOf(PresentItems(resp[1])) = Reverse(DatesOf(PresentItems(resp[2])))
    /\ \A a, b \in DOMAIN resp[1].items : \A c, d \in DOMAIN resp[2].items :
         ( /\ resp[1].items[a] = resp[2].items[c]
           /\ resp[1].items[b] = resp[2].items[d]
           /\ HasDate(resp[1].items[a]) /\ HasDate(resp[1].items[b])
           /\ resp[1].items[a].date.v # resp[1].items[b].date.v )
         => (a < b <=> d < c)
    /\ AbsentLast(resp[1])
    /\ AbsentLast(resp[2])

\* Both listings hold two records with different timestamps and one without.
C5_Witness ==
  /\ SamePairListed
  /\ Len(resp[1].items) = 3
  /\ \E a, b, c \in DOMAIN resp[1].items :
       /\ HasDate(resp[1].items[a]) /\ HasDate(resp[1].items[b])
       /\ resp[1].items[a].date.v # resp[1].items[b].date.v
       /\ resp[1].items[c].date.na

-----------------------------------------------------------------------------
(* C10: stats *)

\* A row of a file with the given header.
RowOn(columns, lat, lng, date, offense) ==
  [c \in Range(columns) |-> RowOf(lat, lng, date, offense)[c]]

StatsDates ==
  {NullCell, IsoCell("2020-12-31", 20201231), IsoCell("2021-03-01", 20210301)}

NoOffenseColumns == <<"Latitude", "Longitude", "Date">>

StatsFiles ==
  FilesOf(StdColumns,
          {RowOn(StdColumns, Num(1), Num(2), date, offense) :
             date \in StatsDates, offense \in {Str("THEFT"), NullCell}},
          MaxRows)
  \cup
  FilesOf(NoOffenseColumns,
          {RowOn(NoOffenseColumns, Num(1), Num(2), date, NullCell) : date \in StatsDates},
          MaxRows)

InitStats == InitOn(StatsFiles)

NextStats ==
  \/ SeqCall(1, "stats")
  \/ GetDf(1)
  \/ Build(1)
  \/ QStats(1, GroupBys \cup {"week"}, {NoDate, OkDate(20210101), BadDate})

SpecStats == InitStats /\ [][NextStats]_vars

\* The records inside the date range (section 4.5 of the specification).
InRange(df, sd, ed) ==
  {i \in DOMAIN df.rows :
     /\ sd.k = "none" \/ (~df.rows[i]._dt.na /\ df.rows[i]._dt.v >= sd.t)
     /\ ed.k = "none" \/ (~df.rows[i]._dt.na /\ df.rows[i]._dt.v <= ed.t)}

\* Row i of the file has no category: no column plays the role, or its cell is
\* empty.
NoCategory(i) ==
  schema["category"] = None \/ csv.rows[i][schema["category"]].k = "null"

CountSum(data) == SumSeq([n \in DOMAIN data |-> data[n].count])

\* C10: the year buckets sum to the number of date-filtered records with a
\* timestamp; the category buckets sum to the number of date-filtered records,
\* the records without a category being counted under the key "".
C10_StatsSums ==
  \A t \in Threads :
    (resp[t].op = "stats" /\ resp[t].status = 200 /\ ~_df.isNone) =>
      LET kept == InRange(_df, resp[t].sd, resp[t].ed)
          bare == {i \in kept : NoCategory(i)}
      IN  /\ resp[t].by = "year" =>
                CountSum(resp[t].data) = Cardinality({i \in kept : ~_df.rows[i]._dt.na})
          /\ resp[t].by = "category" =>
                /\ CountSum(resp[t].data) = Cardinality(kept)
                /\ bare # {} =>
                     \E n \in DOMAIN resp[t].data :
                        /\ resp[t].data[n].key = ""
                        /\ resp[t].data[n].count = Cardinality(bare)

\* The sums alone, which the code keeps.
StatsSumsOnly ==
  \A t \in Threads :
    (resp[t].op = "stats" /\ resp[t].status = 200 /\ ~_df.isNone) =>
      LET kept == InRange(_df, resp[t].sd, resp[t].ed)
      IN  /\ resp[t].by = "year" =>
                CountSum(resp[t].data) = Cardinality({i \in kept : ~_df.rows[i]._dt.na})
          /\ resp[t].by = "category" => CountSum(resp[t].data) = Cardinality(kept)

-----------------------------------------------------------------------------
(* C6, C7: geojson and heatmap *)

GeoRows ==
  {RowOf(lat, lng, IsoCell("2021-03-01", 20210301), Str("THEFT")) :
     lat \in {NullCell, Num(1), Num(3)}, lng \in {NullCell, Num(2), Num(4)}}

GeoFiles == FilesOf(StdColumns, GeoRows, MaxGeoRows)

InitGeo == InitOn(GeoFiles)

NextGeo ==
  \/ \E o \in {"geojson", "heatmap"} : SeqCall(1, o)
  \/ GetDf(1)
  \/ Build(1)
  \/ QGeojson(1)
  \/ QHeatmap(1, {BinsMin, BinsDefault, BinsMax})

SpecGeo == InitGeo /\ [][NextGeo]_vars

\* The records with both coordinates.
BothPresent(df) == {i \in DOMAIN df.rows : ~df.rows[i]._lat.na /\ ~df.rows[i]._lng.na}

\* C6: when heatmap succeeds, the cell counts sum to the number of records with
\* both coordinates, and every cell index lies in 0 .. bins - 1 on both axes.
C6_HeatmapCountsBothPresent ==
  \A t \in Threads :
    (resp[t].op = "heatmap" /\ resp[t].status = 200 /\ ~_df.isNone) =>
      /\ CountSum(resp[t].grid) = Cardinality(BothPresent(_df))
      /\ \A n \in DOMAIN resp[t].grid :
           "i" \in DOMAIN resp[t].grid[n] =>
              /\ resp[t].grid[n].i \in 0 .. resp[t].bins - 1
              /\ resp[t].grid[n].j \in 0 .. resp[t].bins - 1

\* The index range alone, which the code keeps.
HeatmapIndexInRange ==
  \A t \in Threads :
    (resp[t].op = "heatmap" /\ resp[t].status = 200) =>
      \A n \in DOMAIN resp[t].grid :
         "i" \in DOMAIN resp[t].grid[n] =>
            /\ resp[t].grid[n].i \in 0 .. resp[t].bins - 1
            /\ resp[t].grid[n].j \in 0 .. resp[t].bins - 1

\* C7: geojson and heatmap answer NoGeoData (400) exactly when no record has
\* both coordinates.
C7_NoGeoDataExactly ==
  \A t \in Threads :
    (resp[t].op \in {"geojson", "heatmap"} /\ resp[t].status # 0 /\ ~_df.isNone) =>
      (resp[t].status = 400 <=> BothPresent(_df) = {})

-----------------------------------------------------------------------------
(* C8: the date column of the build *)

\* "03/02/2021", read by the column-wide parse.
UsCellRead == DateCell("03/02/2021", {3}, TRUE, TRUE, 20210302)
\* "03/02/2021" in a column whose format was inferred from an ISO first row:
\* the column-wide parse leaves it NaT.
UsCellMissed == DateCell("03/02/2021", {3}, TRUE, FALSE, 20210302)
\* "1500-01-01": strptime reads it, a nanosecond Timestamp cannot hold it.
OldCell == DateCell("1500-01-01", {1}, FALSE, FALSE, 15000101)
\* "March 3, 2021": none of the nine formats, pd.to_datetime reads it.
TextCell == DateCell("March 3, 2021", {}, TRUE, TRUE, 20210303)
\* "n/a": no parser reads it.
JunkCell == DateCell("n/a", {}, FALSE, FALSE, 0)

DateCells ==
  {NullCell, IsoCell("2021-03-01", 20210301), UsCellRead, UsCellMissed, OldCell,
   TextCell, JunkCell}

DateColumns == <<"Date", "Offense">>
NoDateColumns == <<"Offense">>

DateFiles ==
  {f \in FilesOf(DateColumns,
                 {[c \in Range(DateColumns) |-> IF c = "Date" THEN d ELSE Str("THEFT")] :
                    d \in DateCells},
                 MaxRows) :
     \A i \in DOMAIN f.rows :
        f.rows[i]["Date"] = UsCellMissed =>
           \E j \in DOMAIN f.rows : j < i /\ f.rows[j]["Date"].fmts = {1}}
  \cup
  FilesOf(NoDateColumns, {[c \in Range(NoDateColumns) |-> Str("THEFT")]}, MaxRows)

InitDates == InitOn(DateFiles)

NextDates ==
  \/ SeqCall(1, "columns")
  \/ GetDf(1)
  \/ Build(1)
  \/ QColumns(1)

SpecDates == InitDates /\ [][NextDates]_vars

\* C8: after the build a record has a timestamp exactly when a date column is
\* mapped and its raw value matches one of the nine formats or is accepted by
\* the fallback parser; no build fails because of a date value.
C8_TimestampIffParseable ==
  /\ \A t \in Threads : resp[t].status # 500
  /\ ~_df.isNone =>
       \A i \in DOMAIN _df.rows :
         ~_df.rows[i]._dt.na <=>
            /\ schema["date"] # None
            /\ \/ csv.rows[i][schema["date"]].fmts # {}
               \/ csv.rows[i][schema["date"]].fb

\* What the code keeps: no build fails because of a date value, and a record
\* without a mapped date column or with an unreadable value has no timestamp.
TimestampOnlyIfParseable ==
  /\ \A t \in Threads : resp[t].status # 500
  /\ ~_df.isNone =>
       \A i \in DOMAIN _df.rows :
         ~_df.rows[i]._dt.na =>
            /\ schema["date"] # None
            /\ \/ csv.rows[i][schema["date"]].fmts # {}
               \/ csv.rows[i][schema["date"]].fb

-----------------------------------------------------------------------------
(* C9: role inference *)

HeaderNames == {"Latitude", "Lat", "lat", "LAT", "Y", "Date"}

Headers ==
  {h \in UNION {[1 .. n -> HeaderNames] : n \in 1 .. MaxCols} :
     \A i, j \in DOMAIN h : h[i] = h[j] => i = j}

MapFiles == {MkFile(h, <<[c \in Range(h) |-> NullCell]>>) : h \in Headers}

InitMap == InitOn(MapFiles)

NextMap ==
  \/ SeqCall(1, "columns")
  \/ GetDf(1)
  \/ Build(1)
  \/ QColumns(1)

SpecMap == InitMap /\ [][NextMap]_vars

\* The candidates of role r that match some column, case-insensitively.
MatchingCandidates(columns, r) ==
  {n \in DOMAIN Candidates[r] : \E i \in DOMAIN columns : Lower(columns[i]) = Candidates[r][n]}

\* The column chosen is one matching the first matching candidate; none when
\* no candidate matches.
FirstCandidateWins(columns, sch) ==
  \A r \in Roles :
    IF MatchingCandidates(columns, r) = {}
      THEN sch[r] = None
      ELSE /\ sch[r] \in Range(columns)
           /\ Lower(sch[r]) = Candidates[r][SetMin(MatchingCandidates(columns, r))]

Reorderings(columns) ==
  {h \in [DOMAIN columns -> Range(columns)] : Range(h) = Range(columns)}

\* C9: for every role the inferred column matches the first matching candidate
\* of the role's priority list, and the inferred mapping is the same for every
\* permutation of the raw columns.
C9_FirstCandidateAnyOrder ==
  ~_df.isNone =>
     /\ FirstCandidateWins(csv.columns, schema)
     /\ \A h \in Reorderings(csv.columns) : AutoMapColumns(h) = schema

\* The priority rule alone, which the code keeps.
FirstCandidateOnly == ~_df.isNone => FirstCandidateWins(csv.columns, schema)

====
